---- MODULE Spec2Model ----
(***************************************************************************)
(* cvat-core/src/api-implementation.js: the implementations wired onto the *)
(* cvat API object by implementAPI().  Each async implementation is one    *)
(* action up to its first `await serverProxy...` and one action per        *)
(* resumption; the transport (serverProxy) answers nondeterministically.   *)
(***************************************************************************)
EXTENDS Integers, Sequences, FiniteSets, TLC

\* ------------------------------------------------------------------------
\* Bounds of the model
\* ------------------------------------------------------------------------
\* largest number of keys of a filter object passed by a caller
MaxKeys == 2
\* largest number of raw records in one transport response
MaxRecords == 3
\* a total declared by the server that exceeds every page length
DeclaredTotal == 37

\* ------------------------------------------------------------------------
\* JavaScript values that occur in filters
\* ------------------------------------------------------------------------
IntV(n) == [type |-> "integer", n |-> n, s |-> ""]
BoolV(b) == [type |-> "boolean", n |-> IF b THEN 1 ELSE 0, s |-> ""]
StrV(x) == [type |-> "string", n |-> 0, s |-> x]

\* JavaScript truthiness: 0, false and '' are falsy
Truthy(v) ==
    CASE v.type = "integer" -> v.n # 0
      [] v.type = "boolean" -> v.n = 1
      [] OTHER -> v.s # ""

\* String(value), as URLSearchParams.set applies it to its second argument
JsString(v) ==
    CASE v.type = "integer" -> ToString(v.n)
      [] v.type = "boolean" -> (IF v.n = 1 THEN "true" ELSE "false")
      [] OTHER -> v.s

\* ------------------------------------------------------------------------
\* common.js checkers and enums.js (required at lines 11-28)
\* ------------------------------------------------------------------------
TaskStatus == {"annotation", "validation", "completed"}
TaskMode == {"annotation", "interpolation"}
DimensionType == {"2d", "3d"}
CloudStorageProviderType == {"AWS_S3_BUCKET", "AZURE_CONTAINER"}
CloudStorageCredentialsType == {"KEY_SECRET_KEY_PAIR", "ANONYMOUS_ACCESS"}

isInteger(v) == v.type = "integer"
isBoolean(v) == v.type = "boolean"
isString(v) == v.type = "string"
isEnum(enum, v) == v.type = "string" /\ v.s \in enum

\* a schema maps a field name to the name of its checker
Accepts(checker, v) ==
    CASE checker = "isInteger" -> isInteger(v)
      [] checker = "isBoolean" -> isBoolean(v)
      [] checker = "isString" -> isString(v)
      [] checker = "TaskStatus" -> isEnum(TaskStatus, v)
      [] checker = "TaskMode" -> isEnum(TaskMode, v)
      [] checker = "DimensionType" -> isEnum(DimensionType, v)
      [] checker = "CloudStorageProviderType" -> isEnum(CloudStorageProviderType, v)
      [] checker = "CloudStorageCredentialsType" -> isEnum(CloudStorageCredentialsType, v)
      [] OTHER -> FALSE

\* the errors checkFilter can raise on a filter: one per offending key; the
\* key reported is the first offending one in the object's own key order,
\* which the caller chooses
checkFilter(filter, schema) ==
    {"InvalidField" : k \in {k \in DOMAIN filter : k \notin DOMAIN schema}}
    \cup
    {"InvalidType" : k \in {k \in DOMAIN filter :
                              k \in DOMAIN schema /\ ~Accepts(schema[k], filter[k])}}

\* fails when more than one field of `exclusive` is a key of the object
checkExclusiveFields(obj, exclusive, ignore) ==
    IF Cardinality({k \in DOMAIN obj : k \in exclusive}) > 1
    THEN {"ConflictingFields"}
    ELSE {}

\* identifiers as character sequences, for camelToSnake
Chars(name) ==
    CASE name = "displayName" -> <<"d","i","s","p","l","a","y","N","a","m","e">>
      [] name = "credentialsType" -> <<"c","r","e","d","e","n","t","i","a","l","s","T","y","p","e">>
      [] name = "providerType" -> <<"p","r","o","v","i","d","e","r","T","y","p","e">>
      [] name = "resourceName" -> <<"r","e","s","o","u","r","c","e","N","a","m","e">>
      [] name = "projectId" -> <<"p","r","o","j","e","c","t","I","d">>
      [] OTHER -> <<name>>

LowerOf(c) ==
    CASE c = "N" -> "n"
      [] c = "T" -> "t"
      [] c = "I" -> "i"
      [] OTHER -> c

IsUpper(c) == c \in {"N", "T", "I"}

RECURSIVE SnakeChars(_)
SnakeChars(cs) ==
    IF cs = <<>> THEN ""
    ELSE (IF IsUpper(Head(cs)) THEN "_" \o LowerOf(Head(cs)) ELSE Head(cs))
         \o SnakeChars(Tail(cs))

\* every upper-case letter becomes an underscore and its lower-case letter
camelToSnake(name) == SnakeChars(Chars(name))

\* checkObjectType(name, value, type, instance) with an instance given:
\* fails unless the value is an instance of that class
checkObjectType(value) ==
    IF value.isOrganization THEN {} ELSE {"InvalidType"}

\* ------------------------------------------------------------------------
\* Filter schemas, one per operation (the second argument of checkFilter)
\* ------------------------------------------------------------------------
usersSchema ==
    [id |-> "isInteger", is_active |-> "isBoolean", self |-> "isBoolean",
     search |-> "isString", limit |-> "isInteger"]

jobsSchema ==
    [page |-> "isInteger", stage |-> "isString", state |-> "isString",
     assignee |-> "isString", taskID |-> "isInteger", jobID |-> "isInteger"]

tasksSchema ==
    [page |-> "isInteger", projectId |-> "isInteger", name |-> "isString",
     id |-> "isInteger", owner |-> "isString", assignee |-> "isString",
     search |-> "isString", ordering |-> "isString", status |-> "TaskStatus",
     mode |-> "TaskMode", dimension |-> "DimensionType"]

projectsSchema ==
    [id |-> "isInteger", page |-> "isInteger", name |-> "isString",
     assignee |-> "isString", owner |-> "isString", search |-> "isString",
     status |-> "TaskStatus"]

cloudStoragesSchema ==
    [page |-> "isInteger", displayName |-> "isString", resourceName |-> "isString",
     description |-> "isString", id |-> "isInteger", owner |-> "isString",
     search |-> "isString", providerType |-> "CloudStorageProviderType",
     credentialsType |-> "CloudStorageCredentialsType"]

\* the field enumerations of the translation loops
tasksFields ==
    <<"name", "owner", "assignee", "search", "ordering", "status", "mode",
      "id", "page", "projectId", "dimension">>
projectsFields == <<"name", "assignee", "owner", "search", "status", "id", "page">>
cloudStoragesFields ==
    <<"displayName", "credentialsType", "providerType", "owner", "search",
      "id", "page", "description">>

\* ------------------------------------------------------------------------
\* Inputs: the filters a caller may pass, the raw records the transport
\* may answer with
\* ------------------------------------------------------------------------
\* a key that no schema declares
UnknownKey == "unknownKey"

EnumOf(checker) ==
    CASE checker = "TaskStatus" -> TaskStatus
      [] checker = "TaskMode" -> TaskMode
      [] checker = "DimensionType" -> DimensionType
      [] checker = "CloudStorageProviderType" -> CloudStorageProviderType
      [] OTHER -> CloudStorageCredentialsType

\* per checker: an accepted truthy value, an accepted falsy value where one
\* exists, and a value of the wrong type
ValuesFor(checker) ==
    CASE checker = "isInteger" -> {IntV(5), IntV(0), StrV("x")}
      [] checker = "isBoolean" -> {BoolV(TRUE), BoolV(FALSE), StrV("x")}
      [] checker = "isString" -> {StrV("x"), StrV(""), IntV(5)}
      [] OTHER -> {StrV(CHOOSE m \in EnumOf(checker) : TRUE), StrV("x")}

AllValues ==
    {IntV(5), IntV(0), StrV("x"), StrV(""), BoolV(TRUE), BoolV(FALSE)}
    \cup {StrV(m) : m \in TaskStatus \cup TaskMode \cup DimensionType
                          \cup CloudStorageProviderType \cup CloudStorageCredentialsType}

KeyValues(schema, k) ==
    IF k \in DOMAIN schema THEN ValuesFor(schema[k]) ELSE {IntV(5)}

Filters(schema) ==
    UNION {{f \in [ks -> AllValues] : \A k \in ks : f[k] \in KeyValues(schema, k)} :
             ks \in {ks \in SUBSET (DOMAIN schema \cup {UnknownKey}) :
                       Cardinality(ks) <= MaxKeys}}

\* count property of a response or of a result array: absent or a number
Undefined == [defined |-> FALSE, value |-> 0]
Defined(n) == [defined |-> TRUE, value |-> n]

Counts(n) == {Undefined, Defined(n), Defined(DeclaredTotal)}

RawJob(i) == [id |-> i]
RawUser(i) == [id |-> i]
RawCloudStorage(i) == [id |-> i]
RawTask(i, full) == [id |-> i, jobs |-> IF full THEN [k \in 1..i |-> RawJob(k)] ELSE <<>>]
RawProject(i, full) == [id |-> i, tasks |-> IF full THEN [k \in 1..i |-> k] ELSE <<>>]

Slugs == {"org1", "org2"}
RawOrganization(i) == [id |-> i, slug |-> IF i = 1 THEN "org1" ELSE "org2"]

\* pages of up to MaxRecords records, the i-th with id i
Lengths == 0..MaxRecords
SimplePages(Raw(_)) == {[i \in 1..n |-> Raw(i)] : n \in Lengths}
NestedPages(Raw(_, _)) ==
    UNION {{[i \in 1..n |-> Raw(i, full[i])] : full \in [1..n -> BOOLEAN]} : n \in Lengths}

\* ------------------------------------------------------------------------
\* Entity constructors (user.js, session.js, project.js, cloud-storage.js,
\* organization.js): an entity keeps the record it was constructed from
\* ------------------------------------------------------------------------
User(raw) == [class |-> "User", raw |-> raw]
Job(raw) == [class |-> "Job", raw |-> raw]
Project(raw) == [class |-> "Project", raw |-> raw]
CloudStorage(raw) == [class |-> "CloudStorage", raw |-> raw]
Organization(raw) == [class |-> "Organization", raw |-> raw]
\* a Task builds its jobs array from the jobs of its record
Task(raw) ==
    [class |-> "Task", raw |-> raw,
     jobs |-> [i \in DOMAIN raw.jobs |-> Job(raw.jobs[i])]]

Map(F(_), list) == [i \in DOMAIN list |-> F(list[i])]

\* ------------------------------------------------------------------------
\* State
\* ------------------------------------------------------------------------
VARIABLES
    pc,              \* "idle", the await an implementation is suspended at, or "done"
    op,              \* the API operation called, "" when none
    filter,          \* its filter argument
    calls,           \* the transport calls it has issued, in order
    answers,         \* history: what the transport answered to them, in order
    result,          \* what its promise settled with
    organizationID,  \* config.organizationID
    lastOrg,         \* history: the last activate/deactivate that succeeded
    thrown           \* the error of the last activate/deactivate call, "" if none

vars == <<pc, op, filter, calls, answers, result, organizationID, lastOrg, thrown>>
opVars == <<pc, op, filter, calls, answers, result>>
orgVars == <<organizationID, lastOrg, thrown>>

null == "null"
NoFilter == [k \in {} |-> IntV(0)]
Pending == [status |-> "pending", error |-> "", items |-> <<>>, count |-> Undefined]
Rejected(e) == [status |-> "error", error |-> e, items |-> <<>>, count |-> Undefined]
Resolved(items, count) == [status |-> "ok", error |-> "", items |-> items, count |-> count]

Call(fn, params) == [fn |-> fn, params |-> params, query |-> <<>>]
QueryCall(fn, query) == [fn |-> fn, params |-> NoFilter, query |-> query]

Init ==
    /\ pc = "idle"
    /\ op = ""
    /\ filter = NoFilter
    /\ calls = <<>>
    /\ answers = <<>>
    /\ result = Pending
    /\ organizationID = null
    /\ lastOrg = [fn |-> "none", slug |-> null]
    /\ thrown = ""

\* an implementation is entered with its arguments
Enter(name, f) ==
    /\ pc = "idle"
    /\ op' = name
    /\ filter' = f
    /\ answers' = <<>>
    /\ UNCHANGED orgVars

\* it throws before any transport call
Throw(e) ==
    /\ pc' = "done"
    /\ calls' = <<>>
    /\ result' = Rejected(e)

\* it suspends at an await on a transport call
Await(at, call) ==
    /\ pc' = at
    /\ calls' = Append(calls, call)
    /\ result' = Pending

\* it is resumed with the answer to its last transport call
Resume(at, answer) ==
    /\ pc = at
    /\ answers' = Append(answers, answer)

\* it returns
Return(items, count) ==
    /\ pc' = "done"
    /\ result' = Resolved(items, count)
    /\ UNCHANGED <<op, filter, calls>>
    /\ UNCHANGED orgVars

\* own keys of an object restricted to a set
Pick(f, ks) == [k \in ks |-> f[k]]

\* ------------------------------------------------------------------------
\* cvat.users.get
\* ------------------------------------------------------------------------
\* as UsersGet, but every own key other than self is copied, falsy or not
UsersGet_keepFalsy(f) ==
    /\ Enter("users.get", f)
    /\ LET errs == checkFilter(f, usersSchema)
           searchParams == Pick(f, {k \in DOMAIN f : k # "self"})
       IN  IF errs # {} THEN \E e \in errs : Throw(e)
           ELSE IF "self" \in DOMAIN f /\ Truthy(f["self"])
                THEN Await("users.self", Call("users.self", NoFilter))
                ELSE Await("users.get", Call("users.get", searchParams))

UsersGet(f) ==
    /\ Enter("users.get", f)
    /\ LET errs == checkFilter(f, usersSchema)
           searchParams == Pick(f, {k \in DOMAIN f : Truthy(f[k]) /\ k # "self"})
       IN  IF errs # {} THEN \E e \in errs : Throw(e)
           ELSE IF "self" \in DOMAIN f /\ Truthy(f["self"])
                THEN Await("users.self", Call("users.self", NoFilter))
                ELSE Await("users.get", Call("users.get", searchParams))

UsersSelfResume(user) ==
    /\ Resume("users.self", user)
    /\ Return(Map(User, <<user>>), Undefined)

UsersGetResume(users) ==
    /\ Resume("users.get", users)
    /\ Return(Map(User, users), Undefined)

\* ------------------------------------------------------------------------
\* cvat.jobs.get
\* ------------------------------------------------------------------------
\* as JobsGet, but the conflict test reads the values (filter.taskID &&
\* filter.jobID) instead of testing the keys
JobsGet_truthyKeys(f) ==
    /\ Enter("jobs.get", f)
    /\ LET errs == checkFilter(f, jobsSchema)
       IN  IF errs # {} THEN \E e \in errs : Throw(e)
           ELSE IF /\ "taskID" \in DOMAIN f /\ "jobID" \in DOMAIN f
                   /\ Truthy(f["taskID"]) /\ Truthy(f["jobID"])
                THEN Throw("ConflictingFields")
           ELSE IF "taskID" \in DOMAIN f
                THEN Await("jobs.task", Call("tasks.get", [id |-> f["taskID"]]))
           ELSE IF "jobID" \in DOMAIN f
                THEN Await("jobs.job", Call("jobs.get", [id |-> f["jobID"]]))
           ELSE Await("jobs.list", Call("jobs.get", f))

JobsGet(f) ==
    /\ Enter("jobs.get", f)
    /\ LET errs == checkFilter(f, jobsSchema)
       IN  IF errs # {} THEN \E e \in errs : Throw(e)
           ELSE IF "taskID" \in DOMAIN f /\ "jobID" \in DOMAIN f
                THEN Throw("ConflictingFields")
           ELSE IF "taskID" \in DOMAIN f
                THEN Await("jobs.task", Call("tasks.get", [id |-> f["taskID"]]))
           ELSE IF "jobID" \in DOMAIN f
                THEN Await("jobs.job", Call("jobs.get", [id |-> f["jobID"]]))
           ELSE Await("jobs.list", Call("jobs.get", f))

\* as JobsGetTaskResume, but the last record of the answer is taken
JobsGetTaskResume_lastTask(tasks) ==
    /\ Resume("jobs.task", tasks)
    /\ IF tasks # <<>>
       THEN Return(Task(tasks[Len(tasks)]).jobs, Undefined)
       ELSE Return(<<>>, Undefined)

\* const [task] = await serverProxy.tasks.get(...): the first record, if any
JobsGetTaskResume(tasks) ==
    /\ Resume("jobs.task", tasks)
    /\ IF tasks # <<>>
       THEN Return(Task(tasks[1]).jobs, Undefined)
       ELSE Return(<<>>, Undefined)

\* the single-record fetch answers with a record (<<job>>) or nothing (<<>>);
\* with nothing the implementation goes on to the query of line 183
JobsGetJobResume(found) ==
    /\ Resume("jobs.job", found)
    /\ IF found # <<>>
       THEN Return(<<Job(found[1])>>, Undefined)
       ELSE /\ Await("jobs.list", Call("jobs.get", filter))
            /\ UNCHANGED <<op, filter>>
            /\ UNCHANGED orgVars

JobsGetListResume(jobsData) ==
    /\ Resume("jobs.list", jobsData)
    /\ Return(Map(Job, jobsData.results), jobsData.count)

\* ------------------------------------------------------------------------
\* cvat.tasks.get
\* ------------------------------------------------------------------------
\* for (const field of fields) if (hasOwnProperty(filter, field))
\*     searchParams[camelToSnake(field)] = filter[field]
RECURSIVE Translate(_, _)
Translate(fields, f) ==
    IF fields = <<>> THEN NoFilter
    ELSE LET n == Len(fields)
             acc == Translate(SubSeq(fields, 1, n - 1), f)
         IN  IF fields[n] \in DOMAIN f
             THEN (camelToSnake(fields[n]) :> f[fields[n]]) @@ acc
             ELSE acc

\* as TasksGet, but projectId is left out of the exclusive fields
TasksGet_noProjectId(f) ==
    /\ Enter("tasks.get", f)
    /\ LET errs == checkFilter(f, tasksSchema)
           conflicts == checkExclusiveFields(f, {"id", "search"}, {"page"})
       IN  IF errs # {} THEN \E e \in errs : Throw(e)
           ELSE IF conflicts # {} THEN \E e \in conflicts : Throw(e)
           ELSE Await("tasks.get", Call("tasks.get", Translate(tasksFields, f)))

TasksGet(f) ==
    /\ Enter("tasks.get", f)
    /\ LET errs == checkFilter(f, tasksSchema)
           conflicts == checkExclusiveFields(f, {"id", "search", "projectId"}, {"page"})
       IN  IF errs # {} THEN \E e \in errs : Throw(e)
           ELSE IF conflicts # {} THEN \E e \in conflicts : Throw(e)
           ELSE Await("tasks.get", Call("tasks.get", Translate(tasksFields, f)))

TasksGetResume(tasksData) ==
    /\ Resume("tasks.get", tasksData)
    /\ Return(Map(Task, tasksData.results), tasksData.count)

\* ------------------------------------------------------------------------
\* cvat.projects.get
\* ------------------------------------------------------------------------
\* as ProjectsGet, but checkExclusiveFields is called before checkFilter
ProjectsGet_exclusiveFirst(f) ==
    /\ Enter("projects.get", f)
    /\ LET errs == checkFilter(f, projectsSchema)
           conflicts == checkExclusiveFields(f, {"id", "search"}, {"page"})
       IN  IF conflicts # {} THEN \E e \in conflicts : Throw(e)
           ELSE IF errs # {} THEN \E e \in errs : Throw(e)
           ELSE Await("projects.get", Call("projects.get", Translate(projectsFields, f)))

ProjectsGet(f) ==
    /\ Enter("projects.get", f)
    /\ LET errs == checkFilter(f, projectsSchema)
           conflicts == checkExclusiveFields(f, {"id", "search"}, {"page"})
       IN  IF errs # {} THEN \E e \in errs : Throw(e)
           ELSE IF conflicts # {} THEN \E e \in conflicts : Throw(e)
           ELSE Await("projects.get", Call("projects.get", Translate(projectsFields, f)))

\* project.task_ids = project.tasks; return project
reconcileProject(project) == ("task_ids" :> project["tasks"]) @@ project

ProjectsGetResume(projectsData) ==
    /\ Resume("projects.get", projectsData)
    /\ Return(Map(Project, Map(reconcileProject, projectsData.results)),
              projectsData.count)

\* ------------------------------------------------------------------------
\* cvat.cloudStorages.get
\* ------------------------------------------------------------------------
\* URLSearchParams.set: the first pair of that name takes the value and any
\* other pair of that name is removed; a new name is appended
URLSearchParamsSet(sp, name, value) ==
    IF \E i \in DOMAIN sp : sp[i].name = name
    THEN LET first == CHOOSE i \in DOMAIN sp :
                        sp[i].name = name /\ \A j \in 1..(i - 1) : sp[j].name # name
         IN  SelectSeq([i \in DOMAIN sp |->
                          IF i = first THEN [name |-> name, value |-> JsString(value)]
                          ELSE IF sp[i].name = name THEN [name |-> "", value |-> ""]
                          ELSE sp[i]],
                       LAMBDA e : e.name # "")
    ELSE Append(sp, [name |-> name, value |-> JsString(value)])

RECURSIVE TranslateQuery(_, _)
TranslateQuery(fields, f) ==
    IF fields = <<>> THEN <<>>
    ELSE LET n == Len(fields)
             acc == TranslateQuery(SubSeq(fields, 1, n - 1), f)
         IN  IF fields[n] \in DOMAIN f
             THEN URLSearchParamsSet(acc, camelToSnake(fields[n]), f[fields[n]])
             ELSE acc

\* as cloudStoragesQuery, but resourceName goes through camelToSnake like
\* the enumerated fields
cloudStoragesQuery_mechanical(f) ==
    LET searchParams == TranslateQuery(cloudStoragesFields, f)
    IN  IF "resourceName" \in DOMAIN f
        THEN URLSearchParamsSet(searchParams, camelToSnake("resourceName"),
                                f["resourceName"])
        ELSE searchParams

cloudStoragesQuery(f) ==
    LET searchParams == TranslateQuery(cloudStoragesFields, f)
    IN  IF "resourceName" \in DOMAIN f
        THEN URLSearchParamsSet(searchParams, "resource", f["resourceName"])
        ELSE searchParams

CloudStoragesGet(f) ==
    /\ Enter("cloudStorages.get", f)
    /\ LET errs == checkFilter(f, cloudStoragesSchema)
           conflicts == checkExclusiveFields(f, {"id", "search"}, {"page"})
       IN  IF errs # {} THEN \E e \in errs : Throw(e)
           ELSE IF conflicts # {} THEN \E e \in conflicts : Throw(e)
           ELSE Await("cloudStorages.get",
                      QueryCall("cloudStorages.get", cloudStoragesQuery(f)))

CloudStoragesGetResume(cloudStoragesData) ==
    /\ Resume("cloudStorages.get", cloudStoragesData)
    /\ Return(Map(CloudStorage, cloudStoragesData.results), cloudStoragesData.count)

\* ------------------------------------------------------------------------
\* cvat.organizations
\* ------------------------------------------------------------------------
OrganizationsGet ==
    /\ Enter("organizations.get", NoFilter)
    /\ Await("organizations.get", Call("organizations.get", NoFilter))

OrganizationsGetResume(organizationsData) ==
    /\ Resume("organizations.get", organizationsData)
    /\ Return(Map(Organization, organizationsData), Undefined)

\* the arguments of activate: Organization instances, and plain objects that
\* only look like one
OrganizationArgs == [isOrganization : BOOLEAN, slug : Slugs]

\* as OrganizationsActivate, but the marker is assigned before the check
OrganizationsActivate_assignFirst(organization) ==
    /\ LET errs == checkObjectType(organization)
       IN  IF errs # {}
           THEN /\ thrown' \in errs
                /\ organizationID' = organization.slug
                /\ UNCHANGED lastOrg
           ELSE /\ organizationID' = organization.slug
                /\ lastOrg' = [fn |-> "activate", slug |-> organization.slug]
                /\ thrown' = ""
    /\ UNCHANGED opVars

OrganizationsActivate(organization) ==
    /\ LET errs == checkObjectType(organization)
       IN  IF errs # {}
           THEN /\ thrown' \in errs
                /\ UNCHANGED <<organizationID, lastOrg>>
           ELSE /\ organizationID' = organization.slug
                /\ lastOrg' = [fn |-> "activate", slug |-> organization.slug]
                /\ thrown' = ""
    /\ UNCHANGED opVars

OrganizationsDeactivate ==
    /\ organizationID' = null
    /\ lastOrg' = [fn |-> "deactivate", slug |-> null]
    /\ thrown' = ""
    /\ UNCHANGED opVars

\* ------------------------------------------------------------------------
\* The caller takes the settled promise; the next call starts afresh
\* ------------------------------------------------------------------------
Settle ==
    /\ pc = "done"
    /\ pc' = "idle"
    /\ op' = ""
    /\ filter' = NoFilter
    /\ calls' = <<>>
    /\ answers' = <<>>
    /\ result' = Pending
    /\ UNCHANGED orgVars

\* transport answers
Responses(pages) ==
    UNION {{[results |-> p, count |-> c] : c \in Counts(Len(p))} : p \in pages}
SingleRecords(Raw(_)) == {<<>>} \cup {<<Raw(i)>> : i \in 1..MaxRecords}

Next ==
    \/ pc = "idle" /\ \E f \in Filters(usersSchema) : UsersGet(f)
    \/ \E user \in {RawUser(i) : i \in 1..MaxRecords} : UsersSelfResume(user)
    \/ \E users \in SimplePages(RawUser) : UsersGetResume(users)
    \/ pc = "idle" /\ \E f \in Filters(jobsSchema) : JobsGet(f)
    \/ \E tasks \in NestedPages(RawTask) : JobsGetTaskResume(tasks)
    \/ \E found \in SingleRecords(RawJob) : JobsGetJobResume(found)
    \/ \E jobsData \in Responses(SimplePages(RawJob)) : JobsGetListResume(jobsData)
    \/ pc = "idle" /\ \E f \in Filters(tasksSchema) : TasksGet(f)
    \/ \E tasksData \in Responses(NestedPages(RawTask)) : TasksGetResume(tasksData)
    \/ pc = "idle" /\ \E f \in Filters(projectsSchema) : ProjectsGet(f)
    \/ \E projectsData \in Responses(NestedPages(RawProject)) : ProjectsGetResume(projectsData)
    \/ pc = "idle" /\ \E f \in Filters(cloudStoragesSchema) : CloudStoragesGet(f)
    \/ \E cloudStoragesData \in Responses(SimplePages(RawCloudStorage)) :
          CloudStoragesGetResume(cloudStoragesData)
    \/ OrganizationsGet
    \/ \E organizationsData \in SimplePages(RawOrganization) :
          OrganizationsGetResume(organizationsData)
    \/ \E organization \in OrganizationArgs : OrganizationsActivate(organization)
    \/ OrganizationsDeactivate
    \/ Settle

Spec == Init /\ [][Next]_vars

\* ------------------------------------------------------------------------
\* Properties
\* ------------------------------------------------------------------------
Has(k) == k \in DOMAIN filter
SchemaValid(schema) == checkFilter(filter, schema) = {}
Failed(e) == pc = "done" /\ result.status = "error" /\ result.error = e
NoTransport == calls = <<>> /\ answers = <<>>

\* C1: a jobs.get filter that has both the key taskID and the key jobID, with
\* any values and any other keys, makes the call fail before any transport
\* call is issued; the error is the conflicting-fields error whenever the
\* values pass the schema (0 included)
C1_JobsConflict ==
    (op = "jobs.get" /\ Has("taskID") /\ Has("jobID")) =>
        /\ pc = "done"
        /\ result.status = "error"
        /\ NoTransport
        /\ (SchemaValid(jobsSchema) => result.error = "ConflictingFields")

C1_Witness ==
    /\ op = "jobs.get"
    /\ Has("taskID") /\ Has("jobID")
    /\ filter["taskID"] = IntV(0)
    /\ Failed("ConflictingFields")

\* C2: jobs.get with jobID and without taskID: once the single-record fetch
\* has answered, the call has returned, with one Job built from the record if
\* one was found and with an empty collection if not, and no further jobs
\* query was issued
C2_JobByIdOrEmpty ==
    (op = "jobs.get" /\ SchemaValid(jobsSchema) /\ Has("jobID") /\ ~Has("taskID")
       /\ answers # <<>>) =>
        /\ pc = "done"
        /\ result.status = "ok"
        /\ Len(calls) = 1
        /\ result.items = IF answers[1] # <<>> THEN <<Job(answers[1][1])>> ELSE <<>>

\* C3: jobs.get with taskID and without jobID issues exactly one transport
\* call, tasks.get({id: filter.taskID}), and returns the jobs of the first
\* task record answered, or the empty sequence when none is answered
C3_JobsOfTask ==
    (op = "jobs.get" /\ SchemaValid(jobsSchema) /\ Has("taskID") /\ ~Has("jobID")) =>
        /\ Len(calls) = 1
        /\ calls[1].fn = "tasks.get"
        /\ calls[1].params = [id |-> filter["taskID"]]
        /\ (answers = <<>> => pc = "jobs.task")
        /\ (answers # <<>> =>
              /\ pc = "done"
              /\ result.status = "ok"
              /\ Len(answers) = 1
              /\ result.items = IF answers[1] # <<>>
                                THEN [i \in DOMAIN answers[1][1].jobs |->
                                        Job(answers[1][1].jobs[i])]
                                ELSE <<>>)

C3_Witness ==
    /\ op = "jobs.get"
    /\ Has("taskID") /\ ~Has("jobID")
    /\ pc = "done"
    /\ result.status = "ok"
    /\ Len(answers[1]) >= 2
    /\ Len(result.items) = 1

\* C4: tasks.get with a schema-valid filter: two or more of id, search,
\* projectId fail with the conflicting-fields error and no transport call;
\* exactly one of them, alone or with page only, passes and tasks.get is called
C4_TasksExclusive ==
    (op = "tasks.get" /\ SchemaValid(tasksSchema)) =>
        LET present == DOMAIN filter \cap {"id", "search", "projectId"}
        IN  /\ (Cardinality(present) >= 2 =>
                  Failed("ConflictingFields") /\ NoTransport)
            /\ (Cardinality(present) = 1 /\ DOMAIN filter \subseteq present \cup {"page"} =>
                  /\ result.status # "error"
                  /\ Len(calls) = 1
                  /\ calls[1].fn = "tasks.get")

C4_Witness ==
    /\ op = "tasks.get"
    /\ DOMAIN filter = {"id", "page"}
    /\ filter["id"] = IntV(5)
    /\ pc = "done"
    /\ result.status = "ok"

\* C5: in tasks.get, projects.get and cloudStorages.get a filter with a schema
\* violation and two exclusive fields together is reported as invalid field
\* or invalid type, never as conflicting fields, and no transport call is made
ValidatedFirst(name, schema, exclusive) ==
    (op = name /\ ~SchemaValid(schema)
       /\ Cardinality(DOMAIN filter \cap exclusive) >= 2) =>
        /\ pc = "done"
        /\ result.status = "error"
        /\ result.error \in {"InvalidField", "InvalidType"}
        /\ NoTransport

C5_ValidationBeforeExclusivity ==
    /\ ValidatedFirst("tasks.get", tasksSchema, {"id", "search", "projectId"})
    /\ ValidatedFirst("projects.get", projectsSchema, {"id", "search"})
    /\ ValidatedFirst("cloudStorages.get", cloudStoragesSchema, {"id", "search"})

C5_Witness ==
    /\ op = "projects.get"
    /\ DOMAIN filter = {"id", "search"}
    /\ filter["id"] = StrV("x")
    /\ Failed("InvalidType")

\* C6: the count of every returned collection is the total the answer
\* declares when it declares one, and the number of returned elements
\* otherwise
ListAnswer ==
    \/ op \in {"tasks.get", "projects.get", "cloudStorages.get"}
    \/ op = "jobs.get" /\ ~Has("taskID") /\ (Has("jobID") => Len(answers) = 2)

C6_CountRule ==
    (op \in {"tasks.get", "projects.get", "cloudStorages.get", "jobs.get"}
       /\ pc = "done" /\ result.status = "ok") =>
        result.count = IF ListAnswer /\ answers[Len(answers)].count.defined
                       THEN answers[Len(answers)].count
                       ELSE Defined(Len(result.items))

\* C7: every record handed to the Project constructor has task_ids equal to
\* the raw tasks value and has no tasks field
C7_TasksRenamed ==
    (op = "projects.get" /\ pc = "done" /\ result.status = "ok") =>
        \A i \in DOMAIN result.items :
            LET handed == result.items[i].raw
            IN  /\ "task_ids" \in DOMAIN handed
                /\ handed["task_ids"] = answers[1].results[i].tasks
                /\ "tasks" \notin DOMAIN handed

\* C8: cloudStorages.get with a valid filter sends one wire parameter per
\* filter key, named by the translation table and carrying the filter's
\* value, and nothing else; resourceName goes as resource
WireName(k) ==
    CASE k = "providerType" -> "provider_type"
      [] k = "displayName" -> "display_name"
      [] k = "credentialsType" -> "credentials_type"
      [] k = "resourceName" -> "resource"
      [] OTHER -> k

WireValue(v) ==
    CASE v = IntV(5) -> "5"
      [] v = IntV(0) -> "0"
      [] OTHER -> v.s

C8_CloudStoragesQuery ==
    (op = "cloudStorages.get" /\ SchemaValid(cloudStoragesSchema)
       /\ Cardinality(DOMAIN filter \cap {"id", "search"}) <= 1) =>
        /\ Len(calls) = 1
        /\ calls[1].fn = "cloudStorages.get"
        /\ LET q == calls[1].query
           IN  /\ Len(q) = Cardinality(DOMAIN filter)
               /\ \A k \in DOMAIN filter :
                    /\ Cardinality({i \in DOMAIN q : q[i].name = WireName(k)}) = 1
                    /\ \A i \in DOMAIN q :
                         q[i].name = WireName(k) => q[i].value = WireValue(filter[k])
               /\ \A i \in DOMAIN q : q[i].name # "resource_name"

C8_Witness ==
    /\ op = "cloudStorages.get"
    /\ DOMAIN filter = {"providerType", "resourceName"}
    /\ SchemaValid(cloudStoragesSchema)
    /\ pc = "done"
    /\ result.status = "ok"
    /\ \E i \in DOMAIN calls[1].query : calls[1].query[i].name = "resource"

\* C9: config.organizationID is the slug of the last successful activate
\* unless a deactivate followed it, and null otherwise; an activate with a
\* non-Organization fails and leaves the marker as it was, and no step of a
\* fetch operation changes the marker
MarkerFollowsLastCall ==
    organizationID = IF lastOrg.fn = "activate" THEN lastOrg.slug ELSE null

MarkerStep ==
    /\ \A o \in OrganizationArgs :
         (~o.isOrganization /\ OrganizationsActivate(o)) =>
             thrown' # "" /\ organizationID' = organizationID
    /\ (opVars' # opVars => organizationID' = organizationID)

C9_ActiveOrganization == []MarkerFollowsLastCall /\ [][MarkerStep]_vars

C9_Witness ==
    /\ lastOrg.fn = "activate"
    /\ organizationID = "org2"
    /\ thrown = "InvalidType"
    /\ op = "tasks.get"
    /\ pc = "done"

\* C10: users.get with a valid filter: with self true only users.self is
\* called and one element is returned; otherwise users.get is called once
\* with exactly the filter's keys other than self whose values are truthy
C10_UsersQuery ==
    (op = "users.get" /\ SchemaValid(usersSchema)) =>
        /\ Len(calls) = 1
        /\ IF Has("self") /\ filter["self"] = BoolV(TRUE)
           THEN /\ calls[1].fn = "users.self"
                /\ (answers # <<>> =>
                      pc = "done" /\ result.status = "ok" /\ Len(result.items) = 1)
           ELSE /\ calls[1].fn = "users.get"
                /\ DOMAIN calls[1].params =
                     {k \in DOMAIN filter \ {"self"} :
                        filter[k] \notin {IntV(0), BoolV(FALSE), StrV("")}}
                /\ \A k \in DOMAIN calls[1].params : calls[1].params[k] = filter[k]

C10_Witness ==
    /\ op = "users.get"
    /\ DOMAIN filter = {"id", "search"}
    /\ filter["id"] = IntV(0)
    /\ filter["search"] = StrV("x")
    /\ pc = "done"
    /\ result.status = "ok"
    /\ DOMAIN calls[1].params = {"search"}

====
